---- MODULE Spec2Model ----
(***************************************************************************)
(* A model of lebab.py: one run of main() on one document.  The document   *)
(* is read into translator.blocks, the blocks are grouped into chunks of   *)
(* at most MAX_CHUNK_SIZE characters, each chunk is joined with the        *)
(* "\n---\n" delimiter and sent to the LLM, the answer is split on the     *)
(* delimiter and mapped back onto the blocks by position, and finally      *)
(* update_blocks writes the texts back into the document model.            *)
(*                                                                         *)
(* A text is a sequence of characters.  The characters "K" and "H" each    *)
(* abbreviate a long run of letters (see CharLen), so that texts of many   *)
(* thousands of characters can be written down; every other character      *)
(* counts for one.                                                         *)
(***************************************************************************)
EXTENDS Integers, Sequences, FiniteSets, TLC

\* ---------------------------------------------------------------- bounds

\* The largest number of text units (paragraphs, shapes) of a document.
MaxUnits == 3

\* The number of shapes on a full slide of a presentation.
ShapesPerSlide == 2

\* ------------------------------------------------------------- constants

MAX_CHUNK_SIZE == 10000

\* The delimiter "\n---\n" that joins the blocks of a chunk.
Delim == <<"\n", "-", "-", "-", "\n">>

\* translator.doc / translator.prs before read_document has set it.
None == [loaded |-> FALSE]

\* ------------------------------------------------------------------ texts

\* The number of characters a symbol of a text stands for.
CharLen(c) ==
    IF c = "K" THEN MAX_CHUNK_SIZE \div 2
    ELSE IF c = "H" THEN MAX_CHUNK_SIZE + 1
    ELSE 1

RECURSIVE PyLen(_)
\* len(text)
PyLen(t) ==
    IF t = <<>> THEN 0 ELSE CharLen(Head(t)) + PyLen(Tail(t))

RECURSIVE JoinTexts(_)
\* "\n---\n".join(texts)
JoinTexts(ts) ==
    IF ts = <<>> THEN <<>>
    ELSE IF Len(ts) = 1 THEN ts[1]
    ELSE ts[1] \o Delim \o JoinTexts(Tail(ts))

\* text.find("\n---\n") + 1: the first position where the delimiter
\* starts, 0 when it does not occur.
FindDelim(s) ==
    LET hits == {p \in 1..Len(s) :
                    /\ p + Len(Delim) - 1 <= Len(s)
                    /\ SubSeq(s, p, p + Len(Delim) - 1) = Delim}
    IN  IF hits = {} THEN 0 ELSE CHOOSE p \in hits : \A q \in hits : p <= q

RECURSIVE SplitText(_)
\* text.split("\n---\n"): the pieces between the occurrences of the
\* delimiter, found from left to right; always at least one piece.
SplitText(s) ==
    LET p == FindDelim(s)
    IN  IF p = 0 THEN <<s>>
        ELSE <<SubSeq(s, 1, p - 1)>> \o SplitText(SubSeq(s, p + Len(Delim), Len(s)))

\* ------------------------------------------------------------- the inputs

\* The texts a unit of the document may hold: empty, blank, a letter, a
\* text that contains the delimiter, half a chunk, more than a chunk.
UnitTexts ==
    { <<>>, <<" ">>, <<"a">>, <<"a">> \o Delim \o <<"b">>, <<"K">>, <<"H">> }

\* A paragraph or a shape with a text frame, and a shape without one
\* (a picture), which has no "text" attribute.
TextUnit(t) == [text |-> t]
Picture == [image |-> TRUE]

FileContents(k) ==
    LET units == IF k = "docx" THEN {TextUnit(t) : t \in UnitTexts}
                 ELSE {TextUnit(t) : t \in UnitTexts} \cup {Picture}
    IN  UNION {[1..n -> units] : n \in 0..MaxUnits}

\* The j-th item of the answer to the k-th request: k times "u", j times "t".
Item(k, j) == [n \in 1..(k + j) |-> IF n <= k THEN "u" ELSE "t"]

\* What the LLM may answer to its k-th request, a chunk of n blocks: items
\* joined by the delimiter, fewer than n of them, n, or one more.
OracleResponses(k, n) ==
    {JoinTexts([j \in 1..m |-> Item(k, j)]) : m \in 1..(n + 1)}

\* -------------------------------------------------------------- the state

VARIABLES
    kind,               \* "docx" or "pptx": the translator main() selects
    file,               \* the text units of the temporary copy of the input
    fileOk,             \* whether the library can open the file
    doc,                \* translator.doc / translator.prs
    blocks,             \* translator.blocks: a list of dicts
    pc,                 \* where the run is
    i,                  \* the for loop's position in translator.blocks (from 1)
    current_chunk,      \* references (positions in blocks) to the dicts
    current_chunk_size,
    translated_blocks,  \* references (positions in blocks) to the dicts
    site,               \* which await is pending: "loop" (193) or "final" (213)
    chunk_text,         \* the text of the request in flight
    translated_chunk,   \* what translate_text_async returned
    calls,              \* history: one record per call of translate_text_async
    printed,            \* history: the messages process_translation printed
    updates,            \* history: the argument of each call of update_blocks
    writes              \* history: the positions of the document assigned to

vars ==
    <<kind, file, fileOk, doc, blocks, pc, i, current_chunk, current_chunk_size,
      translated_blocks, site, chunk_text, translated_chunk, calls, printed,
      updates, writes>>

\* ------------------------------------------------------ reading a document

\* docx.Document(path): the paragraphs of the file.
DocxDocument(f) == [loaded |-> TRUE, paragraphs |-> f]

\* Presentation(path): the shapes of the file, ShapesPerSlide to a slide.
Presentation(f) ==
    LET n == (Len(f) + ShapesPerSlide - 1) \div ShapesPerSlide
        last(s) == IF s * ShapesPerSlide <= Len(f) THEN s * ShapesPerSlide ELSE Len(f)
    IN  [loaded |-> TRUE,
         slides |-> [s \in 1..n |-> SubSeq(f, (s - 1) * ShapesPerSlide + 1, last(s))]]

\* DocxTranslator.read_document: every paragraph becomes a block.
DocxBlocks(d) ==
    [j \in 1..Len(d.paragraphs) |->
        [type |-> "paragraph", index |-> j - 1, text |-> d.paragraphs[j].text]]

\* hasattr(shape, "text") and shape.text
ShapeHasText(shape) ==
    /\ "text" \in DOMAIN shape
    /\ shape.text # <<>>

\* The blocks of one slide: its shapes that have a text, in order.
SlideBlocks(slide, slide_index) ==
    LET keep(j) == ShapeHasText(slide[j])
        block(j) == [type |-> "shape", slide_index |-> slide_index,
                     shape_index |-> j - 1, text |-> slide[j].text]
        js == SelectSeq([j \in 1..Len(slide) |-> j], keep)
    IN  [n \in 1..Len(js) |-> block(js[n])]

RECURSIVE PptxBlocksFrom(_, _)
PptxBlocksFrom(d, s) ==
    IF s > Len(d.slides) THEN <<>>
    ELSE SlideBlocks(d.slides[s], s - 1) \o PptxBlocksFrom(d, s + 1)

\* PptxTranslator.read_document: the shapes with a non-empty text.
PptxBlocks(d) == PptxBlocksFrom(d, 1)

\* ---------------------------------------------------------- the chunking

\* A variant that forgets the test for an empty current chunk.
NeedsFlushAnyChunk(chunk, size, block_size) ==
    size + block_size > MAX_CHUNK_SIZE

\* current_chunk and (current_chunk_size + block_size > MAX_CHUNK_SIZE)
NeedsFlush(chunk, size, block_size) ==
    /\ chunk # <<>>
    /\ size + block_size > MAX_CHUNK_SIZE

\* "\n---\n".join(b["text"] for b in current_chunk)
ChunkText(bs, chunk) == JoinTexts([n \in 1..Len(chunk) |-> bs[chunk[n]].text])

\* A variant that never takes the early return.
NoBlocksNever(bs) == FALSE

\* if not translator.blocks
NoBlocks(bs) == bs = <<>>

\* ------------------------------------------------------ the reconciliation

\* b[key] = value
SetItem(b, key, value) ==
    [k \in DOMAIN b \cup {key} |-> IF k = key THEN value ELSE b[k]]

\* A variant that leaves the blocks beyond the answer without a text.
ReconcileBlockNoFallback(b, parts, n, pos) ==
    IF pos <= Len(parts) THEN SetItem(b, "translated_text", parts[pos]) ELSE b

\* A variant whose fallback is the empty text.
ReconcileBlockEmptyFallback(b, parts, n, pos) ==
    SetItem(b, "translated_text", IF pos <= Len(parts) THEN parts[pos] ELSE <<>>)

\* A variant that takes the last n items of a longer answer.
ReconcileBlockFromEnd(b, parts, n, pos) ==
    SetItem(b, "translated_text",
            IF Len(parts) > n THEN parts[Len(parts) - n + pos]
            ELSE IF pos <= Len(parts) THEN parts[pos] ELSE b.text)

\* The block at position pos (from 1) of a chunk of n blocks after the answer
\* has been split into parts: lines 196-202.
ReconcileBlock(b, parts, n, pos) ==
    IF Len(parts) # n
    THEN SetItem(b, "translated_text",
                 IF pos <= Len(parts) THEN parts[pos] ELSE b.text)
    ELSE SetItem(b, "translated_text", parts[pos])

\* The number of warnings printed for the answer: line 197.
Warnings(parts, n) == IF Len(parts) # n THEN 1 ELSE 0

\* translator.blocks after the chunk's dicts have been given their texts.
ReconcileChunk(bs, chunk, parts) ==
    [j \in 1..Len(bs) |->
        IF \E n \in 1..Len(chunk) : chunk[n] = j
        THEN ReconcileBlock(bs[j], parts, Len(chunk),
                            CHOOSE n \in 1..Len(chunk) : chunk[n] = j)
        ELSE bs[j]]

\* A variant that assigns instead of extending.
ExtendOverwrite(list, chunk) == chunk

\* translated_blocks.extend(current_chunk)
Extend(list, chunk) == list \o chunk

\* A variant that calls update_blocks after every chunk.
AfterReconcileUpdate(where) == "update"

\* Where the run goes after a chunk is reconciled: back into the loop body
\* (line 207) or on to update_blocks (line 225).
AfterReconcile(where) == IF where = "loop" THEN "append" ELSE "update"

\* -------------------------------------------------------------- the writer

\* The position of the document a block names.
Address(b) ==
    IF b.type = "paragraph" THEN [index |-> b.index]
    ELSE [slide_index |-> b.slide_index, shape_index |-> b.shape_index]

\* Whether update_blocks can assign the block's text: the block has a
\* translated_text and its position exists (otherwise the exception is
\* caught and printed).
Writable(d, b) ==
    /\ "translated_text" \in DOMAIN b
    /\ d.loaded
    /\ IF b.type = "paragraph"
       THEN "paragraphs" \in DOMAIN d /\ b.index + 1 \in 1..Len(d.paragraphs)
       ELSE /\ "slides" \in DOMAIN d
            /\ b.slide_index + 1 \in 1..Len(d.slides)
            /\ b.shape_index + 1 \in 1..Len(d.slides[b.slide_index + 1])

\* self.doc.paragraphs[index].text = text / shape.text = text
WriteText(d, b) ==
    IF b.type = "paragraph"
    THEN [d EXCEPT !.paragraphs[b.index + 1] = [text |-> b.translated_text]]
    ELSE [d EXCEPT !.slides[b.slide_index + 1][b.shape_index + 1] =
                        SetItem(@, "text", b.translated_text)]

\* Whether the translator's update_blocks handles blocks of this type.
Handles(k, b) == b.type = (IF k = "docx" THEN "paragraph" ELSE "shape")

RECURSIVE UpdatedDoc(_, _, _)
\* update_blocks(translated_blocks): the document afterwards.
UpdatedDoc(k, d, bs) ==
    IF bs = <<>> THEN d
    ELSE LET b == Head(bs)
         IN  UpdatedDoc(k, IF Handles(k, b) /\ Writable(d, b) THEN WriteText(d, b) ELSE d,
                        Tail(bs))

\* update_blocks(translated_blocks): the positions assigned to, in order.
Written(k, d, bs) ==
    LET ok(b) == Handles(k, b) /\ Writable(d, b)
        done == SelectSeq(bs, ok)
    IN  [n \in 1..Len(done) |-> Address(done[n])]

\* The dicts a list of references stands for.
Deref(bs, refs) == [n \in 1..Len(refs) |-> bs[refs[n]]]

\* ------------------------------------------------------------------- Init

Init ==
    /\ kind \in {"docx", "pptx"}
    /\ fileOk \in BOOLEAN
    /\ file \in (IF fileOk THEN FileContents(kind) ELSE {<<>>})
    /\ doc = None
    /\ blocks = <<>>
    /\ pc = "read"
    /\ i = 1
    /\ current_chunk = <<>>
    /\ current_chunk_size = 0
    /\ translated_blocks = <<>>
    /\ site = "none"
    /\ chunk_text = <<>>
    /\ translated_chunk = <<>>
    /\ calls = <<>>
    /\ printed = <<>>
    /\ updates = <<>>
    /\ writes = <<>>

\* ---------------------------------------------------------------- actions

\* Line 178: translator.read_document().  A file the library cannot open
\* raises; the exception is caught and doc and blocks stay as constructed.
ReadDocument ==
    /\ pc = "read"
    /\ IF fileOk
       THEN /\ doc' = (IF kind = "docx" THEN DocxDocument(file) ELSE Presentation(file))
            /\ blocks' = (IF kind = "docx" THEN DocxBlocks(doc') ELSE PptxBlocks(doc'))
       ELSE UNCHANGED <<doc, blocks>>
    /\ pc' = "check"
    /\ UNCHANGED <<kind, file, fileOk, i, current_chunk, current_chunk_size,
                   translated_blocks, site, chunk_text, translated_chunk, calls,
                   printed, updates, writes>>

\* Lines 179-181: no blocks: print and return to main().
NothingToTranslate ==
    /\ pc = "check"
    /\ NoBlocks(blocks)
    /\ printed' = Append(printed, "No text blocks found for translation.")
    /\ pc' = "write"
    /\ UNCHANGED <<kind, file, fileOk, doc, blocks, i, current_chunk,
                   current_chunk_size, translated_blocks, site, chunk_text,
                   translated_chunk, calls, updates, writes>>

\* Lines 183-185: the lists of the run.
StartLoop ==
    /\ pc = "check"
    /\ ~NoBlocks(blocks)
    /\ translated_blocks' = <<>>
    /\ current_chunk' = <<>>
    /\ current_chunk_size' = 0
    /\ i' = 1
    /\ pc' = "loop"
    /\ UNCHANGED <<kind, file, fileOk, doc, blocks, site, chunk_text,
                   translated_chunk, calls, printed, updates, writes>>

\* The call of translate_text_async for current_chunk, up to its await.
Dispatch(where) ==
    /\ chunk_text' = ChunkText(blocks, current_chunk)
    /\ calls' = Append(calls, [chunk |-> current_chunk,
                               request |-> chunk_text',
                               outcome |-> "pending",
                               returned |-> <<>>,
                               parts |-> <<>>,
                               warnings |-> 0,
                               reconciled |-> FALSE])
    /\ site' = where
    /\ pc' = "await"

\* Lines 187-193: the next block does not fit: send the current chunk.
FlushChunk ==
    /\ pc = "loop"
    /\ i <= Len(blocks)
    /\ NeedsFlush(current_chunk, current_chunk_size, PyLen(blocks[i].text))
    /\ Dispatch("loop")
    /\ UNCHANGED <<kind, file, fileOk, doc, blocks, i, current_chunk,
                   current_chunk_size, translated_blocks, translated_chunk,
                   printed, updates, writes>>

\* Lines 207-208: the block joins the current chunk, either at once (the
\* test of line 191 fails) or after the previous chunk has been reconciled.
AppendBlock ==
    /\ \/ /\ pc = "loop"
          /\ i <= Len(blocks)
          /\ ~NeedsFlush(current_chunk, current_chunk_size, PyLen(blocks[i].text))
       \/ pc = "append"
    /\ current_chunk' = Append(current_chunk, i)
    /\ current_chunk_size' = current_chunk_size + PyLen(blocks[i].text)
    /\ i' = i + 1
    /\ pc' = "loop"
    /\ UNCHANGED <<kind, file, fileOk, doc, blocks, translated_blocks, site,
                   chunk_text, translated_chunk, calls, printed, updates, writes>>

\* Lines 211-213: the loop is over: send the remaining blocks, if any.
FinalChunk ==
    /\ pc = "loop"
    /\ i > Len(blocks)
    /\ IF current_chunk # <<>>
       THEN Dispatch("final")
       ELSE /\ pc' = "update"
            /\ UNCHANGED <<site, chunk_text, calls>>
    /\ UNCHANGED <<kind, file, fileOk, doc, blocks, i, current_chunk,
                   current_chunk_size, translated_blocks, translated_chunk,
                   printed, updates, writes>>

\* Lines 49-52: the LLM answers and translate_text_async returns its text.
OracleReturn ==
    /\ pc = "await"
    /\ \E r \in OracleResponses(Len(calls), Len(current_chunk)) :
          /\ translated_chunk' = r
          /\ calls' = [calls EXCEPT ![Len(calls)].outcome = "ok",
                                    ![Len(calls)].returned = r]
    /\ pc' = "reconcile"
    /\ UNCHANGED <<kind, file, fileOk, doc, blocks, i, current_chunk,
                   current_chunk_size, translated_blocks, site, chunk_text,
                   printed, updates, writes>>

\* Lines 53-56: the call raises and translate_text_async returns its input.
OracleRaise ==
    /\ pc = "await"
    /\ translated_chunk' = chunk_text
    /\ calls' = [calls EXCEPT ![Len(calls)].outcome = "raise",
                              ![Len(calls)].returned = chunk_text]
    /\ pc' = "reconcile"
    /\ UNCHANGED <<kind, file, fileOk, doc, blocks, i, current_chunk,
                   current_chunk_size, translated_blocks, site, chunk_text,
                   printed, updates, writes>>

\* Lines 195-205 and 214-222: split the answer and give each block of the
\* chunk its text.
Reconcile ==
    /\ pc = "reconcile"
    /\ LET translated_parts == SplitText(translated_chunk)
           w == Warnings(translated_parts, Len(current_chunk))
       IN  /\ blocks' = ReconcileChunk(blocks, current_chunk, translated_parts)
           /\ printed' = printed \o [n \in 1..w |-> "Warning: Mismatch in block count"]
           /\ calls' = [calls EXCEPT ![Len(calls)].parts = translated_parts,
                                     ![Len(calls)].warnings = w,
                                     ![Len(calls)].reconciled = TRUE]
    /\ translated_blocks' = Extend(translated_blocks, current_chunk)
    /\ IF site = "loop"
       THEN /\ current_chunk' = <<>>
            /\ current_chunk_size' = 0
       ELSE UNCHANGED <<current_chunk, current_chunk_size>>
    /\ pc' = AfterReconcile(site)
    /\ UNCHANGED <<kind, file, fileOk, doc, i, site, chunk_text,
                   translated_chunk, updates, writes>>

\* Line 225: translator.update_blocks(translated_blocks).
UpdateBlocks ==
    /\ pc = "update"
    /\ LET arg == Deref(blocks, translated_blocks)
       IN  /\ updates' = Append(updates, arg)
           /\ doc' = UpdatedDoc(kind, doc, arg)
           /\ writes' = writes \o Written(kind, doc, arg)
    /\ pc' = "write"
    /\ UNCHANGED <<kind, file, fileOk, blocks, i, current_chunk,
                   current_chunk_size, translated_blocks, site, chunk_text,
                   translated_chunk, calls, printed>>

\* Line 278: translator.write_document(target_file) saves the document
\* model (or prints the error when there is none); no position changes.
WriteDocument ==
    /\ pc = "write"
    /\ pc' = "done"
    /\ UNCHANGED <<kind, file, fileOk, doc, blocks, i, current_chunk,
                   current_chunk_size, translated_blocks, site, chunk_text,
                   translated_chunk, calls, printed, updates, writes>>

Next ==
    \/ ReadDocument
    \/ NothingToTranslate
    \/ StartLoop
    \/ FlushChunk
    \/ AppendBlock
    \/ FinalChunk
    \/ OracleReturn
    \/ OracleRaise
    \/ Reconcile
    \/ UpdateBlocks
    \/ WriteDocument

Spec == Init /\ [][Next]_vars

\* ------------------------------------------------- vocabulary of the claims

\* What read_document yields for the file of the run.
Loaded == IF kind = "docx" THEN DocxDocument(file) ELSE Presentation(file)

Extracted ==
    IF ~fileOk THEN <<>>
    ELSE IF kind = "docx" THEN DocxBlocks(Loaded) ELSE PptxBlocks(Loaded)

\* A block without the text the reconciliation gave it.
Bare(b) == [k \in DOMAIN b \ {"translated_text"} |-> b[k]]

Iota(n) == [j \in 1..n |-> j]

Range(f) == {f[x] : x \in DOMAIN f}

\* The blocks of the chunks sent so far, in the order they were sent.
RECURSIVE ConcatChunks(_)
ConcatChunks(cs) ==
    IF cs = <<>> THEN <<>> ELSE Head(cs).chunk \o ConcatChunks(Tail(cs))

\* The sum of len(text) over the blocks of a chunk.
RECURSIVE ChunkSize(_)
ChunkSize(chunk) ==
    IF chunk = <<>> THEN 0
    ELSE PyLen(blocks[Head(chunk)].text) + ChunkSize(Tail(chunk))

Oversized(j) == PyLen(blocks[j].text) > MAX_CHUNK_SIZE

\* The run is past the last reconciliation.
Reassembling == pc \in {"update", "write", "done"}

HasText(j) == "translated_text" \in DOMAIN blocks[j]

\* The calls whose answer has been mapped back onto the blocks.
Reconciled == {k \in 1..Len(calls) : calls[k].reconciled}

\* Every block of call k's chunk up to the answer's length has the item
\* at its own position.
ByPosition(k) ==
    \A n \in 1..Len(calls[k].chunk) :
        n <= Len(calls[k].parts) =>
            /\ HasText(calls[k].chunk[n])
            /\ blocks[calls[k].chunk[n]].translated_text = calls[k].parts[n]

\* Every block of call k's chunk beyond the answer's length has its own
\* source text.
FallbackBeyond(k) ==
    \A n \in 1..Len(calls[k].chunk) :
        n > Len(calls[k].parts) =>
            /\ HasText(calls[k].chunk[n])
            /\ blocks[calls[k].chunk[n]].translated_text = blocks[calls[k].chunk[n]].text

\* str.strip() removes leading and trailing whitespace.
IsSpace(c) == c \in {" ", "\n", "\t"}

RECURSIVE Strip(_)
Strip(t) ==
    IF t = <<>> THEN <<>>
    ELSE IF IsSpace(Head(t)) THEN Strip(Tail(t))
    ELSE IF IsSpace(t[Len(t)]) THEN Strip(SubSeq(t, 1, Len(t) - 1))
    ELSE t

\* The position of the j-th unit of the file in the document.
UnitAddress(j) ==
    IF kind = "docx" THEN [index |-> j - 1]
    ELSE [slide_index |-> (j - 1) \div ShapesPerSlide,
          shape_index |-> (j - 1) % ShapesPerSlide]

\* The units of the file whose text is not blank, in document order.
NonBlankUnits ==
    LET keep(j) == "text" \in DOMAIN file[j] /\ Strip(file[j].text) # <<>>
        js == SelectSeq(Iota(Len(file)), keep)
    IN  [n \in 1..Len(js) |-> [address |-> UnitAddress(js[n]), text |-> file[js[n]].text]]

\* ------------------------------------------------------------------ claims

\* C1: every chunk sent to the oracle is non-empty and, unless it is a single
\* block, has a total size of at most MAX_CHUNK_SIZE; the text sent is the
\* whole text of its blocks; and once all chunks are sent, every block longer
\* than MAX_CHUNK_SIZE has been sent whole as a chunk of its own.
C1_ChunksWithinBudget ==
    /\ \A k \in 1..Len(calls) :
          /\ calls[k].chunk # <<>>
          /\ ChunkSize(calls[k].chunk) <= MAX_CHUNK_SIZE \/ Len(calls[k].chunk) = 1
          /\ calls[k].request =
                JoinTexts([n \in 1..Len(calls[k].chunk) |-> blocks[calls[k].chunk[n]].text])
    /\ Reassembling =>
          \A j \in 1..Len(blocks) :
              Oversized(j) =>
                  \E k \in 1..Len(calls) :
                      /\ calls[k].chunk = <<j>>
                      /\ calls[k].request = blocks[j].text

\* A finished run that sent a full chunk of several blocks, exactly at the
\* budget, and an oversized block.
C1_Witness ==
    /\ pc = "done"
    /\ \E k \in 1..Len(calls) :
          /\ Len(calls[k].chunk) >= 2
          /\ ChunkSize(calls[k].chunk) = MAX_CHUNK_SIZE
    /\ \E k \in 1..Len(calls) : Oversized(calls[k].chunk[1])

\* C2: the chunks sent are contiguous and in order (their concatenation is
\* a prefix of translator.blocks, and all of it once the loop is over), and
\* the list handed to update_blocks holds every extracted block once, in the
\* order of extraction.
C2_NoBlockLostOrReordered ==
    /\ ConcatChunks(calls) = Iota(Len(ConcatChunks(calls)))
    /\ Reassembling /\ blocks # <<>> => ConcatChunks(calls) = Iota(Len(blocks))
    /\ \A u \in 1..Len(updates) :
          [n \in 1..Len(updates[u]) |-> Bare(updates[u][n])] = Extracted
    /\ pc = "done" /\ Extracted # <<>> => Len(updates) = 1

\* A finished run of several chunks whose last chunk was a partial one.
C2_Witness ==
    /\ pc = "done"
    /\ Len(calls) >= 2
    /\ Len(updates) = 1
    /\ Len(updates[1]) = MaxUnits
    /\ ChunkSize(calls[Len(calls)].chunk) < MAX_CHUNK_SIZE

C4_ByPositionExtrasDropped ==
    \A k \in Reconciled :
        Len(calls[k].parts) >= Len(calls[k].chunk) =>
            /\ ByPosition(k)
            /\ calls[k].outcome = "ok" =>
                  \A x \in (Len(calls[k].chunk) + 1)..Len(calls[k].parts) :
                      \A j \in 1..Len(blocks) :
                          HasText(j) => blocks[j].translated_text # calls[k].parts[x]

\* A finished run in which a chunk of two blocks was answered with three
\* items and a later chunk was translated too.
C4_Witness ==
    /\ pc = "done"
    /\ \E k \in 1..Len(calls) :
          /\ k < Len(calls)
          /\ calls[k].outcome = "ok"
          /\ Len(calls[k].chunk) >= 2
          /\ Len(calls[k].parts) > Len(calls[k].chunk)

\* C5: when the oracle's answer for a chunk of N blocks splits into M < N
\* items, blocks 0..M-1 have items 0..M-1, blocks M..N-1 have their own
\* source text, one warning was printed for the chunk, and the run goes on:
\* when it is done every block has been sent and update_blocks was called.
C5_FewerItemsFallback ==
    /\ \A k \in Reconciled :
          calls[k].outcome = "ok" /\ Len(calls[k].parts) < Len(calls[k].chunk) =>
              /\ ByPosition(k)
              /\ FallbackBeyond(k)
              /\ calls[k].warnings = 1
              /\ pc \in {"append", "loop", "await", "reconcile", "update", "write", "done"}
              /\ pc = "done" =>
                    /\ Len(updates) = 1
                    /\ ConcatChunks(calls) = Iota(Len(blocks))
                    /\ \A j \in 1..Len(blocks) : HasText(j)
    /\ Len(SelectSeq(printed, LAMBDA m : m = "Warning: Mismatch in block count")) =
          Cardinality({k \in Reconciled : Len(calls[k].parts) # Len(calls[k].chunk)})

\* A finished run in which a chunk of two blocks was answered with one
\* item and a later chunk was translated.
C5_Witness ==
    /\ pc = "done"
    /\ \E k \in 1..Len(calls) :
          /\ k < Len(calls)
          /\ calls[k].outcome = "ok"
          /\ Len(calls[k].chunk) >= 2
          /\ Len(calls[k].parts) < Len(calls[k].chunk)

\* An answer of the oracle to a chunk of several blocks that holds no
\* delimiter at all cannot be parsed into per-block items.
Unparseable(k) ==
    /\ calls[k].outcome = "ok"
    /\ Len(calls[k].chunk) >= 2
    /\ FindDelim(calls[k].returned) = 0

\* C6: when the oracle's answer for a chunk cannot be parsed into per-block
\* items, every block of the chunk has its own source text.
C6_UnparseableFallsBack ==
    \A k \in Reconciled :
        Unparseable(k) =>
            \A n \in 1..Len(calls[k].chunk) :
                /\ HasText(calls[k].chunk[n])
                /\ blocks[calls[k].chunk[n]].translated_text = blocks[calls[k].chunk[n]].text

\* C7: the blocks read from the document are exactly its units whose text
\* is non-empty after trimming, in document order.
C7_BlocksAreNonBlankUnits ==
    pc # "read" /\ fileOk =>
        [n \in 1..Len(blocks) |-> [address |-> Address(blocks[n]), text |-> blocks[n].text]]
            = NonBlankUnits

\* C8: when read_document yields no block, no chunk is formed, the oracle
\* is not called, "nothing to translate" is printed, update_blocks is not
\* called and no position of the document model is written.
C8_EmptyShortCircuit ==
    pc # "read" /\ Extracted = <<>> =>
        /\ blocks = <<>>
        /\ calls = <<>>
        /\ current_chunk = <<>>
        /\ updates = <<>>
        /\ writes = <<>>
        /\ doc = (IF fileOk THEN Loaded ELSE None)
        /\ pc \in {"check", "write", "done"}
        /\ pc # "check" => printed = <<"No text blocks found for translation.">>

\* A finished run on a document that has units but no block.
C8_Witness ==
    /\ pc = "done"
    /\ fileOk
    /\ Len(file) = MaxUnits
    /\ blocks = <<>>

\* C9: a call of the oracle starts only after every earlier call has been
\* reconciled, and the calls are in chunk order; update_blocks is invoked
\* at most once, only after every block's chunk has been reconciled, and
\* nothing is written to the document before; in a finished run with blocks
\* it was invoked once and each block's address was written exactly once.
C9_SequentialThenOneWrite ==
    /\ \A k \in 1..Len(calls) : k < Len(calls) => calls[k].reconciled
    /\ \A k \in 1..Len(calls) : \A l \in 1..Len(calls) :
          k < l => \A a \in Range(calls[k].chunk) : \A b \in Range(calls[l].chunk) : a < b
    /\ Len(updates) <= 1
    /\ Len(updates) = 1 =>
          /\ \A k \in 1..Len(calls) : calls[k].reconciled
          /\ ConcatChunks(calls) = Iota(Len(blocks))
          /\ Len(updates[1]) = Len(blocks)
    /\ updates = <<>> =>
          /\ writes = <<>>
          /\ doc \in {None, Loaded}
    /\ pc = "done" /\ Extracted # <<>> =>
          /\ Len(updates) = 1
          /\ writes = [n \in 1..Len(blocks) |-> Address(blocks[n])]
          /\ \A m \in 1..Len(writes) : \A n \in 1..Len(writes) :
                writes[m] = writes[n] => m = n

\* A finished run of at least two calls of the oracle and one write pass
\* over as many positions as the document has units.
C9_Witness ==
    /\ pc = "done"
    /\ Len(calls) >= 2
    /\ Len(updates) = 1
    /\ Len(writes) = MaxUnits

\* C10: when the oracle call for a chunk raises, translate_text_async
\* returns the chunk's joined source text and every block of the chunk has
\* its own source text as translated_text.
C10_RaiseKeepsSource ==
    \A k \in Reconciled :
        calls[k].outcome = "raise" =>
            /\ calls[k].returned = calls[k].request
            /\ \A n \in 1..Len(calls[k].chunk) :
                  /\ HasText(calls[k].chunk[n])
                  /\ blocks[calls[k].chunk[n]].translated_text = blocks[calls[k].chunk[n]].text

====
